---- MODULE Spec2Model ----
(***************************************************************************)
(* State-machine model of the diagram builder system (src/main.cpp):       *)
(* the DiagramFactory facade with its Undo/Redo managers, the             *)
(* GraphFactory/Director/Builder pipeline and the flyweight figure pool.   *)
(* A std::string is a sequence of one-character strings; text literals of  *)
(* the output are kept as the txt field of an output line.                 *)
(***************************************************************************)
EXTENDS Integers, Sequences, FiniteSets, TLC

(* ---------------------------------------------------------------------- *)
(* Bounds of the model                                                    *)
(* ---------------------------------------------------------------------- *)
\* number of creation requests served (createGraph and createFigure calls
\* together)
MaxCreations == 3
\* number of subscribers attached to a Graph or Figure object
MaxSubscribers == 3

(* ---------------------------------------------------------------------- *)
(* String literals of the program                                         *)
(* ---------------------------------------------------------------------- *)
EmptyString == << >>
GraphElem == <<"G","r","a","p","h">>
FigureElem == <<"F","i","g","u","r","e">>
BarStyle == <<"B","a","r">>
LineStyle == <<"L","i","n","e">>
ColorPattern == <<"C","o","l","o","r">>

(* ---------------------------------------------------------------------- *)
(* Inputs of the calls                                                    *)
(* ---------------------------------------------------------------------- *)
\* element names: the two known ones and an unknown (wrong-case) one
Elements == { GraphElem, FigureElem, <<"g","r","a","p","h">> }
\* graph styles: Bar, Line and an unknown style
Styles == { BarStyle, LineStyle, <<"P","i","e">> }
\* figure keys: "Color" at the end, "Color" at the start and not at the
\* end, and a key with only a wrong-case and a truncated "Color"
CircleColor == <<"C","i","r","c","l","e","C","o","l","o","r">>
Colors == <<"C","o","l","o","r","s">>
NearMiss == <<"c","o","l","o","r","C","o","l","o">>
Keys == { CircleColor, Colors, NearMiss }
\* the type strings tried with an element
TypesFor(element) ==
    IF element = GraphElem THEN Styles
    ELSE IF element = FigureElem THEN Keys
    ELSE { BarStyle }
Coord1020 == <<"(","1","0",",","2","0",")">>
Coord1530 == <<"(","1","5",",","3","0",")">>
Coords == { Coord1020, Coord1530 }

(* ---------------------------------------------------------------------- *)
(* State                                                                  *)
(* ---------------------------------------------------------------------- *)
VARIABLES
    undoStack,   \* Undo::undoStack, bottom first, top last
    redoStack,   \* Redo::redoStack, bottom first, top last
    barCoord,    \* BarBuilder::coord of the singleton
    lineCoord,   \* LineBuilder::coord of the singleton
    pool,        \* FlyweightFactory::pool : key -> instance (address)
    heap,        \* the flyweight instances: address -> object
    nextCmd,     \* identity given to the next CreateGraphCommand object
    steps,       \* builder methods called by the last call, in order
    out,         \* lines written by the last call, in order
    op,          \* the last call made and its arguments
    diagram,     \* a Graph or Figure object (main's g and f) and its subscribers
    directors    \* callers inside Director::construct, per caller

vars == << undoStack, redoStack, barCoord, lineCoord, pool, heap, nextCmd,
           steps, out, op, diagram, directors >>

(* ---------------------------------------------------------------------- *)
(* Output lines                                                           *)
(* ---------------------------------------------------------------------- *)
\* a line written to cout: by whom, the literal text, the string streamed
\* after it (empty when there is none)
Line(who, txt, arg) == [who |-> who, txt |-> txt, arg |-> arg]

\* std::string::find(pat) != npos : pat occurs in s at some position
RECURSIVE FindFrom(_, _, _)
FindFrom(s, pat, i) ==
    IF i + Len(pat) - 1 > Len(s) THEN 0
    ELSE IF SubSeq(s, i, i + Len(pat) - 1) = pat THEN i
    ELSE FindFrom(s, pat, i + 1)

\* a find that only looks at the start of s
Find_PrefixOnly(s, pat) ==
    IF Len(pat) <= Len(s) /\ SubSeq(s, 1, Len(pat)) = pat THEN 1 ELSE 0

\* position (1-based) of the first occurrence of pat in s, 0 for npos
Find(s, pat) == FindFrom(s, pat, 1)

(* ---------------------------------------------------------------------- *)
(* Observer: subscribers                                                  *)
(* ---------------------------------------------------------------------- *)
regSub == "RegSub"
contrastSub == "ContrastImageSub"

\* DrawSubscriber::notify of the two concrete observers: the line starts
\* with the observer's own prefix (who) and carries the message
Notify(sub, message) ==
    IF sub = regSub THEN Line("[Regular Subscriber] ", message, EmptyString)
    ELSE Line("[Contrast Image Subscriber] ", message, EmptyString)

\* notifySubscribers: every subscriber of the list, in attachment order
NotifySubscribers(subscribers, message) ==
    [i \in 1..Len(subscribers) |-> Notify(subscribers[i], message)]

(* ---------------------------------------------------------------------- *)
(* Flyweight figures and their factory                                    *)
(* ---------------------------------------------------------------------- *)
ColoredFigure(t) == [variant |-> "Colored", type |-> t, subscribers |-> << >>]
BWFigure(t) == [variant |-> "BW", type |-> t, subscribers |-> << >>]

\* ColoredFigure::draw / BWFigure::draw
FigureDraw(fig) ==
    IF fig.variant = "Colored"
    THEN << Line("cout", "[Colored Flyweight] Drawing colored figure of type: ", fig.type) >>
         \o NotifySubscribers(fig.subscribers, "Colored Figure drawn")
    ELSE << Line("cout", "[B/W Flyweight] Drawing black and white figure of type: ", fig.type) >>
         \o NotifySubscribers(fig.subscribers, "B/W Figure drawn")

\* attachSubscriber on the instance at address a
AttachSubscriber(h, a, sub) ==
    [h EXCEPT ![a].subscribers = Append(@, sub)]

\* a getFigure without the lookup: a new instance on every request
FlyweightGetFigure_NoLookup(p, h, type) ==
    LET a == Len(h) + 1
        obj == IF Find(type, ColorPattern) # 0
               THEN ColoredFigure(type)
               ELSE BWFigure(type)
    IN [pool |-> (type :> a) @@ p, heap |-> Append(h, obj), fig |-> a]

\* FlyweightFactory::getFigure: the pool and heap after the call and the
\* address returned; make_shared allocates the next free address
FlyweightGetFigure(p, h, type) ==
    IF type \notin DOMAIN p
    THEN LET a == Len(h) + 1
             obj == IF Find(type, ColorPattern) # 0
                    THEN ColoredFigure(type)
                    ELSE BWFigure(type)
         IN [pool |-> (type :> a) @@ p, heap |-> Append(h, obj), fig |-> a]
    ELSE [pool |-> p, heap |-> h, fig |-> p[type]]

\* a getFigure that draws before it attaches the subscriber
FigureFactoryGetFigure_DrawBeforeAttach(p, h, type, coord, sub) ==
    LET r == FlyweightGetFigure(p, h, type)
        h1 == AttachSubscriber(r.heap, r.fig, sub)
    IN [pool |-> r.pool, heap |-> h1, fig |-> r.fig,
        out |-> << Line("cout", "Coordinates: ", coord) >> \o FigureDraw(r.heap[r.fig])]

\* FigureFactory::getFigure
FigureFactoryGetFigure(p, h, type, coord, sub) ==
    LET r == FlyweightGetFigure(p, h, type)
        h1 == AttachSubscriber(r.heap, r.fig, sub)
    IN [pool |-> r.pool, heap |-> h1, fig |-> r.fig,
        out |-> << Line("cout", "Coordinates: ", coord) >> \o FigureDraw(h1[r.fig])]

(* ---------------------------------------------------------------------- *)
(* Builders, Director, GraphFactory                                       *)
(* ---------------------------------------------------------------------- *)
\* DrawGraph::draw
ProxyDraw == Line("cout", "[Graph Proxy] Drawing graphical + textual stub", EmptyString)

\* one builder method called: which builder, which method
Step(builder, method) == [builder |-> builder, method |-> method]

\* a builder during a call: its coord, the lines written so far and the
\* methods called so far
Running(b) == [coord |-> b, out |-> << >>, steps |-> << >>]

\* BarBuilder methods
BarSetCoord(m, c) ==
    [m EXCEPT !.coord = c, !.steps = Append(@, Step("Bar", "setCoord"))]
BarCalc(m) ==
    [m EXCEPT !.out = Append(@, Line("cout", "Bar calc at ", m.coord)),
              !.steps = Append(@, Step("Bar", "calc"))]
BarDraw(m) ==
    [m EXCEPT !.out = Append(@, ProxyDraw),
              !.steps = Append(@, Step("Bar", "draw"))]
BarDrag(m) ==
    [m EXCEPT !.out = Append(@, Line("cout", "Drag Bar at ", m.coord)),
              !.steps = Append(@, Step("Bar", "drag"))]

\* LineBuilder methods
LineSetCoord(m, c) ==
    [m EXCEPT !.coord = c, !.steps = Append(@, Step("Line", "setCoord"))]
LineCalc(m) ==
    [m EXCEPT !.out = Append(@, Line("cout", "Line calc at ", m.coord)),
              !.steps = Append(@, Step("Line", "calc"))]
LineDraw(m) ==
    [m EXCEPT !.out = Append(@, ProxyDraw),
              !.steps = Append(@, Step("Line", "draw"))]
LineDrag(m) ==
    [m EXCEPT !.out = Append(@, Line("cout", "Drag Line at ", m.coord)),
              !.steps = Append(@, Step("Line", "drag"))]

\* virtual dispatch on the Builder* held by the Director
BuilderSetCoord(builder, m, c) ==
    IF builder = "Bar" THEN BarSetCoord(m, c) ELSE LineSetCoord(m, c)
BuilderCalc(builder, m) == IF builder = "Bar" THEN BarCalc(m) ELSE LineCalc(m)
BuilderDraw(builder, m) == IF builder = "Bar" THEN BarDraw(m) ELSE LineDraw(m)
BuilderDrag(builder, m) == IF builder = "Bar" THEN BarDrag(m) ELSE LineDrag(m)

\* a construct that draws before it calculates
Construct_DrawFirst(builder, b, type, coord) ==
    LET m1 == BuilderSetCoord(builder, Running(b), coord)
        m2 == BuilderDraw(builder, m1)
        m3 == BuilderCalc(builder, m2)
        m4 == BuilderDrag(builder, m3)
    IN m4

\* a construct that sets the coordinate after the other three steps
Construct_SetCoordLast(builder, b, type, coord) ==
    LET m1 == BuilderCalc(builder, Running(b))
        m2 == BuilderDraw(builder, m1)
        m3 == BuilderDrag(builder, m2)
        m4 == BuilderSetCoord(builder, m3, coord)
    IN m4

\* Director::construct on the builder whose coord is b: the coord after
\* the call, the lines written and the methods called
Construct(builder, b, type, coord) ==
    LET m1 == BuilderSetCoord(builder, Running(b), coord)
        m2 == BuilderCalc(builder, m1)
        m3 == BuilderDraw(builder, m2)
        m4 == BuilderDrag(builder, m3)
    IN m4

\* GraphFactory::createGraph on the two singletons' coords
GraphFactoryCreateGraph(bar, line, type, coord) ==
    IF type = BarStyle
    THEN LET r == Construct("Bar", bar, type, coord)
         IN [bar |-> r.coord, line |-> line, out |-> r.out, steps |-> r.steps]
    ELSE IF type = LineStyle
    THEN LET r == Construct("Line", line, type, coord)
         IN [bar |-> bar, line |-> r.coord, out |-> r.out, steps |-> r.steps]
    ELSE [bar |-> bar, line |-> line, out |-> << >>, steps |-> << >>]

(* ---------------------------------------------------------------------- *)
(* Commands and the undo / redo managers                                  *)
(* ---------------------------------------------------------------------- *)
\* a CreateGraphCommand object; id stands for its address
CreateGraphCommand(id, t, c) == [id |-> id, type |-> t, coord |-> c]

\* CreateGraphCommand::execute
CommandExecute(cmd, bar, line) == GraphFactoryCreateGraph(bar, line, cmd.type, cmd.coord)

\* CreateGraphCommand::undo
CommandUndo(cmd) == << Line("cout", "Undo creation of graph: ", cmd.type) >>

\* an addCommand that puts the command under the others
AddCommand_Bottom(stack, cmd) == << cmd >> \o stack

\* Undo::addCommand / Redo::addCommand
AddCommand(stack, cmd) == Append(stack, cmd)

\* the null command pointer
NullPtr == [id |-> 0, type |-> EmptyString, coord |-> EmptyString]

\* a popCommand that takes the oldest command (front) instead of the top
PopCommand_Front(stack) ==
    IF stack = << >>
    THEN [cmd |-> NullPtr, stack |-> stack]
    ELSE [cmd |-> stack[1], stack |-> SubSeq(stack, 2, Len(stack))]

\* Undo::popCommand / Redo::popCommand: nullptr on an empty stack
PopCommand(stack) ==
    IF stack = << >>
    THEN [cmd |-> NullPtr, stack |-> stack]
    ELSE [cmd |-> stack[Len(stack)], stack |-> SubSeq(stack, 1, Len(stack) - 1)]

\* a clear() that leaves the stack as it is
RedoClear_Kept(stack) == stack

\* Redo::clear
RedoClear(stack) == << >>

(* ---------------------------------------------------------------------- *)
(* The facade: DiagramFactory                                             *)
(* ---------------------------------------------------------------------- *)
\* the call being made
Call(name, element, type, coord) ==
    [name |-> name, element |-> element, type |-> type, coord |-> coord]

\* number of attachSubscriber calls made so far on the flyweights
RECURSIVE Attached(_)
Attached(h) ==
    IF h = << >> THEN 0
    ELSE Len(h[Len(h)].subscribers) + Attached(SubSeq(h, 1, Len(h) - 1))

\* number of createGraph and createFigure calls made so far: a command per
\* createGraph, two attached subscribers per createFigure
Creations == (nextCmd - 1) + (Attached(heap) \div 2)

\* no Graph or Figure object constructed yet
NoDiagram == [kind |-> "none", subscribers |-> << >>]

Init ==
    /\ undoStack = << >>
    /\ redoStack = << >>
    /\ barCoord = EmptyString
    /\ lineCoord = EmptyString
    /\ pool = [k \in {} |-> 0]
    /\ heap = << >>
    /\ nextCmd = 1
    /\ steps = << >>
    /\ out = << >>
    /\ op = Call("main", EmptyString, EmptyString, EmptyString)
    /\ diagram = NoDiagram
    /\ directors = << >>

\* DiagramFactory::createGraph
CreateGraph(type, coord) ==
    LET cmd == CreateGraphCommand(nextCmd, type, coord)
        r == CommandExecute(cmd, barCoord, lineCoord)
    IN /\ barCoord' = r.bar
       /\ lineCoord' = r.line
       /\ out' = r.out
       /\ steps' = r.steps
       /\ undoStack' = AddCommand(undoStack, cmd)
       /\ redoStack' = RedoClear(redoStack)
       /\ nextCmd' = nextCmd + 1
       /\ UNCHANGED << pool, heap >>

\* a createFigure that cuts the redo history as createGraph does
CreateFigure_ClearsRedo(type, coord) ==
    LET r == FigureFactoryGetFigure(pool, heap, type, coord, regSub)
    IN /\ pool' = r.pool
       /\ heap' = AttachSubscriber(r.heap, r.fig, contrastSub)
       /\ out' = r.out
       /\ steps' = << >>
       /\ redoStack' = RedoClear(redoStack)
       /\ UNCHANGED << undoStack, barCoord, lineCoord, nextCmd >>

\* DiagramFactory::createFigure
CreateFigure(type, coord) ==
    LET r == FigureFactoryGetFigure(pool, heap, type, coord, regSub)
    IN /\ pool' = r.pool
       /\ heap' = AttachSubscriber(r.heap, r.fig, contrastSub)
       /\ out' = r.out
       /\ steps' = << >>
       /\ UNCHANGED << undoStack, redoStack, barCoord, lineCoord, nextCmd >>

\* a getDiagram whose last branch is an else: anything that is not a
\* Figure is created as a Graph
GetDiagram_DefaultsToGraph(element, type, coord) ==
    /\ element \in {GraphElem, FigureElem} => Creations < MaxCreations
    /\ op' = Call("getDiagram", element, type, coord)
    /\ IF element = FigureElem THEN CreateFigure(type, coord)
       ELSE CreateGraph(type, coord)
    /\ UNCHANGED << diagram, directors >>

\* DiagramFactory::getDiagram
GetDiagram(element, type, coord) ==
    /\ element \in {GraphElem, FigureElem} => Creations < MaxCreations
    /\ op' = Call("getDiagram", element, type, coord)
    /\ IF element = GraphElem THEN CreateGraph(type, coord)
       ELSE IF element = FigureElem THEN CreateFigure(type, coord)
       ELSE /\ out' = << >>
            /\ steps' = << >>
            /\ UNCHANGED << undoStack, redoStack, barCoord, lineCoord,
                            pool, heap, nextCmd >>
    /\ UNCHANGED << diagram, directors >>

\* DiagramFactory::undo on the two stacks: the stacks after the call and
\* the lines written
DiagramFactoryUndo(undo, redo) ==
    LET r == PopCommand(undo)
    IN IF r.cmd # NullPtr
       THEN [undo |-> r.stack, redo |-> AddCommand(redo, r.cmd), out |-> CommandUndo(r.cmd)]
       ELSE [undo |-> r.stack, redo |-> redo, out |-> << >>]

\* a redo() without the null check: the popped pointer is pushed on the
\* undo stack whatever it is
DiagramFactoryRedo_NoNullCheck(undo, redo, bar, line) ==
    LET r == PopCommand(redo)
        e == CommandExecute(r.cmd, bar, line)
    IN [undo |-> AddCommand(undo, r.cmd), redo |-> r.stack,
        bar |-> e.bar, line |-> e.line, out |-> e.out, steps |-> e.steps]

\* a redo() that moves the command back without executing it
DiagramFactoryRedo_NoExecute(undo, redo, bar, line) ==
    LET r == PopCommand(redo)
    IN IF r.cmd # NullPtr
       THEN [undo |-> AddCommand(undo, r.cmd), redo |-> r.stack,
             bar |-> bar, line |-> line, out |-> << >>, steps |-> << >>]
       ELSE [undo |-> undo, redo |-> r.stack,
             bar |-> bar, line |-> line, out |-> << >>, steps |-> << >>]

\* a redo() that puts the command back on the redo stack instead of the
\* undo stack
DiagramFactoryRedo_WrongStack(undo, redo, bar, line) ==
    LET r == PopCommand(redo)
    IN IF r.cmd # NullPtr
       THEN LET e == CommandExecute(r.cmd, bar, line)
            IN [undo |-> undo, redo |-> AddCommand(r.stack, r.cmd),
                bar |-> e.bar, line |-> e.line, out |-> e.out, steps |-> e.steps]
       ELSE [undo |-> undo, redo |-> r.stack,
             bar |-> bar, line |-> line, out |-> << >>, steps |-> << >>]

\* a redo() that clears the redo stack after re-executing
DiagramFactoryRedo_Clears(undo, redo, bar, line) ==
    LET r == PopCommand(redo)
    IN IF r.cmd # NullPtr
       THEN LET e == CommandExecute(r.cmd, bar, line)
            IN [undo |-> AddCommand(undo, r.cmd), redo |-> RedoClear(r.stack),
                bar |-> e.bar, line |-> e.line, out |-> e.out, steps |-> e.steps]
       ELSE [undo |-> undo, redo |-> r.stack,
             bar |-> bar, line |-> line, out |-> << >>, steps |-> << >>]

\* DiagramFactory::redo on the two stacks and the two builders' coords
DiagramFactoryRedo(undo, redo, bar, line) ==
    LET r == PopCommand(redo)
    IN IF r.cmd # NullPtr
       THEN LET e == CommandExecute(r.cmd, bar, line)
            IN [undo |-> AddCommand(undo, r.cmd), redo |-> r.stack,
                bar |-> e.bar, line |-> e.line, out |-> e.out, steps |-> e.steps]
       ELSE [undo |-> undo, redo |-> r.stack,
             bar |-> bar, line |-> line, out |-> << >>, steps |-> << >>]

\* an undo() that also takes back what the undone command built: the
\* builder of the command's style loses its coordinate
Undo_RetractsGraph ==
    LET r == DiagramFactoryUndo(undoStack, redoStack)
        cmd == PopCommand(undoStack).cmd
    IN /\ op' = Call("undo", EmptyString, EmptyString, EmptyString)
       /\ undoStack' = r.undo
       /\ redoStack' = r.redo
       /\ out' = r.out
       /\ steps' = << >>
       /\ barCoord' = (IF cmd.type = BarStyle THEN EmptyString ELSE barCoord)
       /\ lineCoord' = (IF cmd.type = LineStyle THEN EmptyString ELSE lineCoord)
       /\ UNCHANGED << pool, heap, nextCmd >>
       /\ UNCHANGED << diagram, directors >>

\* a call of undo() on the facade
Undo ==
    LET r == DiagramFactoryUndo(undoStack, redoStack)
    IN /\ op' = Call("undo", EmptyString, EmptyString, EmptyString)
       /\ undoStack' = r.undo
       /\ redoStack' = r.redo
       /\ out' = r.out
       /\ steps' = << >>
       /\ UNCHANGED << barCoord, lineCoord, pool, heap, nextCmd >>
       /\ UNCHANGED << diagram, directors >>

\* a call of redo() on the facade
Redo ==
    LET r == DiagramFactoryRedo(undoStack, redoStack, barCoord, lineCoord)
    IN /\ op' = Call("redo", EmptyString, EmptyString, EmptyString)
       /\ undoStack' = r.undo
       /\ redoStack' = r.redo
       /\ barCoord' = r.bar
       /\ lineCoord' = r.line
       /\ out' = r.out
       /\ steps' = r.steps
       /\ UNCHANGED << pool, heap, nextCmd >>
       /\ UNCHANGED << diagram, directors >>

Next ==
    \/ \E element \in Elements : \E type \in TypesFor(element) : \E coord \in Coords :
          GetDiagram(element, type, coord)
    \/ Undo
    \/ Redo

Spec == Init /\ [][Next]_vars

(* ---------------------------------------------------------------------- *)
(* Properties of the command history                                      *)
(* ---------------------------------------------------------------------- *)
\* the call o is createDiagram("Graph", ...)
IsCreateGraph(o) == o.name = "getDiagram" /\ o.element = GraphElem

\* top of a non-empty stack, and the stack below it
Top(stack) == stack[Len(stack)]
Below(stack) == SubSeq(stack, 1, Len(stack) - 1)

\* C1: History branch-cut. Right after any createDiagram("Graph", type,
\* coord) the redo stack is empty, and a redo() called then does nothing:
\* both stacks and both builders are left as they are, nothing is written
\* and no builder method runs (after A, B, undo, C the undo stack stays
\* [A, C] and B is not executed again).
C1_BranchCut ==
    [][ /\ IsCreateGraph(op') => redoStack' = << >>
        /\ (IsCreateGraph(op) /\ op'.name = "redo") =>
              /\ undoStack' = undoStack
              /\ redoStack' = << >>
              /\ barCoord' = barCoord /\ lineCoord' = lineCoord
              /\ out' = << >> /\ steps' = << >> ]_vars

\* A, B, undo, C, redo has been run (C a Bar, so that a redo of C would
\* write): the undo stack is [A, C], the redo wrote nothing
C1_Witness ==
    /\ op.name = "redo"
    /\ Len(undoStack) = 2
    /\ undoStack[1].id = 1 /\ undoStack[2].id = 3
    /\ undoStack[2].type = BarStyle
    /\ redoStack = << >>
    /\ out = << >> /\ steps = << >>

\* C2: Undo/redo round-trip. In every reachable state whose undo stack is
\* not empty, undo() followed immediately by redo() leaves the undo stack
\* and the redo stack exactly as they were before the undo().
C2_RoundTrip ==
    undoStack # << >> =>
        LET u == DiagramFactoryUndo(undoStack, redoStack)
            r == DiagramFactoryRedo(u.undo, u.redo, barCoord, lineCoord)
        IN /\ u.undo # undoStack
           /\ r.undo = undoStack
           /\ r.redo = redoStack

\* a redo that re-executed a command has just returned, with commands
\* left on both stacks
C2_Witness ==
    /\ op.name = "redo"
    /\ steps # << >>
    /\ Len(undoStack) >= 2
    /\ redoStack # << >>

\* C3: Empty-stack no-op. undo() on an empty undo stack and redo() on an
\* empty redo stack change nothing (stacks, builder coords, flyweight
\* pool, the figures and their subscriber lists) and write nothing; the
\* state after the call being the state before it, so is the state after
\* any number of such calls.
C3_EmptyStackNoOp ==
    [][ /\ (op'.name = "undo" /\ undoStack = << >>) =>
              /\ UNCHANGED << undoStack, redoStack, barCoord, lineCoord,
                              pool, heap, nextCmd >>
              /\ out' = << >> /\ steps' = << >>
        /\ (op'.name = "redo" /\ redoStack = << >>) =>
              /\ UNCHANGED << undoStack, redoStack, barCoord, lineCoord,
                              pool, heap, nextCmd >>
              /\ out' = << >> /\ steps' = << >> ]_vars

\* redo() has been called with an empty redo stack while commands and
\* figures exist: it wrote nothing
C3_Witness ==
    /\ op.name = "redo"
    /\ out = << >>
    /\ redoStack = << >>
    /\ undoStack # << >> /\ Top(undoStack).type = BarStyle
    /\ Top(undoStack).id = nextCmd - 1
    /\ heap # << >>

\* C4: undo() is LIFO. With a non-empty undo stack, undo() removes exactly
\* the top command, writes exactly one acknowledgment naming that command's
\* type, and pushes that command on top of the redo stack.
C4_UndoLifo ==
    [][ (op'.name = "undo" /\ undoStack # << >>) =>
           /\ undoStack' = Below(undoStack)
           /\ redoStack' = Append(redoStack, Top(undoStack))
           /\ Len(undoStack') = Len(undoStack) - 1
           /\ Len(redoStack') = Len(redoStack) + 1
           /\ out' = << [who |-> "cout", txt |-> "Undo creation of graph: ",
                         arg |-> Top(undoStack).type] >> ]_vars

\* Graph Line (10,20), Graph Bar (15,30), undo: "Bar" is acknowledged
C4_Witness ==
    /\ op.name = "undo"
    /\ undoStack = << [id |-> 1, type |-> LineStyle, coord |-> Coord1020] >>
    /\ redoStack = << [id |-> 2, type |-> BarStyle, coord |-> Coord1530] >>
    /\ out = << [who |-> "cout", txt |-> "Undo creation of graph: ", arg |-> BarStyle] >>

\* C5: redo() re-executes the most recently undone command. With a
\* non-empty redo stack, redo() removes exactly its top command, runs that
\* command's creation again with its own type and coordinate (for Bar and
\* Line the whole setCoord, calc, draw, drag sequence on that style's
\* builder, with the command's coordinate), and pushes the same command on
\* top of the undo stack.
C5_RedoReexecutes ==
    [][ (op'.name = "redo" /\ redoStack # << >>) =>
          LET cmd == Top(redoStack)
              b == IF cmd.type = BarStyle THEN "Bar" ELSE "Line"
          IN /\ redoStack' = Below(redoStack)
             /\ undoStack' = Append(undoStack, cmd)
             /\ cmd.type \in {BarStyle, LineStyle} =>
                   /\ steps' = << [builder |-> b, method |-> "setCoord"],
                                  [builder |-> b, method |-> "calc"],
                                  [builder |-> b, method |-> "draw"],
                                  [builder |-> b, method |-> "drag"] >>
                   /\ Len(out') = 3
                   /\ out'[1].arg = cmd.coord /\ out'[3].arg = cmd.coord
                   /\ out'[1].txt = (IF b = "Bar" THEN "Bar calc at " ELSE "Line calc at ")
                   /\ out'[3].txt = (IF b = "Bar" THEN "Drag Bar at " ELSE "Drag Line at ")
                   /\ (IF b = "Bar" THEN barCoord' ELSE lineCoord') = cmd.coord ]_vars

\* Graph Line (10,20), Graph Bar (15,30), a Line at another coordinate or
\* not, undo, redo: the Bar construction has run again at (15,30)
C5_Witness ==
    /\ op.name = "redo"
    /\ Len(undoStack) = 2
    /\ Top(undoStack) = [id |-> 2, type |-> BarStyle, coord |-> Coord1530]
    /\ undoStack[1].type = LineStyle
    /\ Len(steps) = 4 /\ steps[1].builder = "Bar"
    /\ barCoord = Coord1530

C7_CacheIdentity ==
    [][ /\ \A k \in DOMAIN pool :
              /\ k \in DOMAIN pool'
              /\ pool'[k] = pool[k]
              /\ heap'[pool'[k]].type = heap[pool[k]].type
              /\ heap'[pool'[k]].variant = heap[pool[k]].variant
        /\ \A k \in DOMAIN pool' :
              LET r == FlyweightGetFigure(pool', heap', k)
              IN /\ r.fig = pool'[k]
                 /\ r.pool = pool' /\ r.heap = heap'
                 /\ pool'[k] \in 1..Len(heap')
                 /\ heap'[pool'[k]].type = k
        /\ \A k1, k2 \in DOMAIN pool' : k1 # k2 => pool'[k1] # pool'[k2] ]_vars

\* CircleColor has been requested twice (four subscribers attached to its
\* one instance) and another key once: two keys, two instances
C7_Witness ==
    /\ CircleColor \in DOMAIN pool
    /\ Cardinality(DOMAIN pool) = 2
    /\ Len(heap) = 2
    /\ Len(heap[pool[CircleColor]].subscribers) = 4

\* the string k contains "Color" at some position (case-sensitive)
ContainsColor(k) ==
    \E i \in 1..Len(k) :
        /\ i + 4 <= Len(k)
        /\ k[i] = "C" /\ k[i+1] = "o" /\ k[i+2] = "l" /\ k[i+3] = "o" /\ k[i+4] = "r"

\* C8: Cache partition. The cached instance of every key k is of the
\* Colored variant if and only if k contains "Color", otherwise of the BW
\* variant, and the variant of an instance never changes.
C8_CachePartition ==
    [][ /\ \A k \in DOMAIN pool' :
              /\ heap'[pool'[k]].variant \in {"Colored", "BW"}
              /\ heap'[pool'[k]].variant = "Colored" <=> ContainsColor(k)
        /\ \A a \in 1..Len(heap) : heap'[a].variant = heap[a].variant ]_vars

\* a key ending in "Color", a key starting with it and a key with a
\* wrong-case and a truncated "Color" are cached: Colored, Colored, BW
C8_Witness ==
    /\ DOMAIN pool = {CircleColor, Colors, NearMiss}
    /\ heap[pool[CircleColor]].variant = "Colored"
    /\ heap[pool[Colors]].variant = "Colored"
    /\ heap[pool[NearMiss]].variant = "BW"

(* ---------------------------------------------------------------------- *)
(* Properties of the construction pipeline                                *)
(* ---------------------------------------------------------------------- *)
\* the four builder methods in the Director's order, on one builder
FourSteps(b) ==
    << [builder |-> b, method |-> "setCoord"], [builder |-> b, method |-> "calc"],
       [builder |-> b, method |-> "draw"], [builder |-> b, method |-> "drag"] >>

\* the type and coordinate of the graph creation a step performs: that of
\* the call for createDiagram("Graph", ..), that of the redone command for
\* a redo() on a non-empty redo stack
CreationOf(o, redo) ==
    IF IsCreateGraph(o) THEN [type |-> o.type, coord |-> o.coord]
    ELSE IF o.name = "redo" /\ redo # << >>
    THEN [type |-> Top(redo).type, coord |-> Top(redo).coord]
    ELSE [type |-> EmptyString, coord |-> EmptyString]

\* the lines of o that the Draw Proxy wrote
ProxyLines(o) ==
    { i \in 1..Len(o) : o[i].txt = "[Graph Proxy] Drawing graphical + textual stub" }

\* C9: Fixed construction sequence. Every creation of a graph of style Bar
\* or Line, by createDiagram or by redo(), calls on that style's builder
\* exactly setCoord(coord), calc(), draw(), drag(), in this order and once
\* each, and draw() is the one Draw Proxy action, between the calc line and
\* the drag line.
C9_FixedSequence ==
    [][ LET c == CreationOf(op', redoStack)
        IN /\ c.type = BarStyle =>
                /\ steps' = FourSteps("Bar")
                /\ barCoord' = c.coord
           /\ c.type = LineStyle =>
                /\ steps' = FourSteps("Line")
                /\ lineCoord' = c.coord
           /\ c.type \in {BarStyle, LineStyle} =>
                /\ ProxyLines(out') = {2}
                /\ Len(out') = 3
                /\ out'[1].arg = c.coord /\ out'[3].arg = c.coord ]_vars

\* createDiagram("Graph", "Line", "(10,20)") has just run the four steps
\* on the Line builder
C9_Witness ==
    /\ IsCreateGraph(op) /\ op.type = LineStyle /\ op.coord = Coord1020
    /\ steps = FourSteps("Line")
    /\ lineCoord = Coord1020
    /\ Len(out) = 3

\* C10: Unknown graph style is a silent no-op. createDiagram("Graph",
\* style, coord) with a style other than "Bar" and "Line" runs no builder
\* step, writes nothing and leaves the builder coordinates, the flyweight
\* cache, the undo stack and the redo stack as they were.
C10_UnknownStyleNoOp ==
    [][ (IsCreateGraph(op') /\ op'.type \notin {BarStyle, LineStyle}) =>
           /\ steps' = << >> /\ out' = << >>
           /\ UNCHANGED << barCoord, lineCoord, pool, heap, undoStack, redoStack >> ]_vars

(* ---------------------------------------------------------------------- *)
(* Properties of the facade's routing                                     *)
(* ---------------------------------------------------------------------- *)
\* the call o is createDiagram("Figure", ...)
IsCreateFigure(o) == o.name = "getDiagram" /\ o.element = FigureElem

\* C11: Unknown element is a silent no-op. createDiagram(element, type,
\* coord) with an element other than exactly "Graph" or "Figure" writes
\* nothing and changes no state: undo stack, redo stack, builder
\* coordinates, flyweight cache and subscriber lists are all unchanged.
C11_UnknownElementNoOp ==
    [][ (op'.name = "getDiagram" /\ op'.element \notin {GraphElem, FigureElem}) =>
           /\ out' = << >> /\ steps' = << >>
           /\ UNCHANGED << undoStack, redoStack, barCoord, lineCoord,
                           pool, heap, nextCmd >> ]_vars

\* createDiagram("graph", "Bar", ..) has been called while a command, an
\* undone command and a figure exist: nothing was written, no Bar built
C11_Witness ==
    /\ op.name = "getDiagram" /\ op.element = <<"g","r","a","p","h">>
    /\ op.type = BarStyle
    /\ out = << >> /\ steps = << >>
    /\ undoStack # << >> /\ redoStack # << >> /\ heap # << >>
    /\ barCoord = EmptyString

(* ---------------------------------------------------------------------- *)
(* The Diagram classes Graph and Figure, used on their own                *)
(* ---------------------------------------------------------------------- *)
\* Graph g; / Figure f; : an object with no subscriber
GraphObject == [kind |-> "Graph", subscribers |-> << >>]
FigureObject == [kind |-> "Figure", subscribers |-> << >>]

\* a notifySubscribers that walks the list from its end
DiagramNotifySubscribers_Reversed(subscribers, message) ==
    [i \in 1..Len(subscribers) |->
        Notify(subscribers[Len(subscribers) + 1 - i], message)]

\* Graph::notifySubscribers / Figure::notifySubscribers
DiagramNotifySubscribers(subscribers, message) ==
    [i \in 1..Len(subscribers) |-> Notify(subscribers[i], message)]

\* Graph::calc, draw, drag, accept (ExportVisitor::visit(Graph*))
GraphCalc(d) ==
    << Line("cout", "Calculating Graph", EmptyString) >>
    \o DiagramNotifySubscribers(d.subscribers, "Graph calculated")
GraphDraw(d) ==
    << Line("cout", "[Graph] Drawing graphical representation.", EmptyString) >>
    \o DiagramNotifySubscribers(d.subscribers, "Graph drawn")
GraphDrag(d) ==
    << Line("cout", "Dragging Graph", EmptyString) >>
    \o DiagramNotifySubscribers(d.subscribers, "Graph dragged")
GraphAccept(d) == << Line("cout", "Exporting Graph as PNG...", EmptyString) >>

\* Figure::calc, draw, drag, accept (ExportVisitor::visit(Figure*))
FigureCalc(d) ==
    << Line("cout", "Calculating Figure", EmptyString) >>
    \o DiagramNotifySubscribers(d.subscribers, "Figure calculated")
FigureObjectDraw(d) ==
    << Line("cout", "[Figure Stub] Drawing textual stub.", EmptyString) >>
    \o DiagramNotifySubscribers(d.subscribers, "Figure drawn")
FigureDrag(d) ==
    << Line("cout", "Dragging Figure", EmptyString) >>
    \o DiagramNotifySubscribers(d.subscribers, "Figure dragged")
FigureAccept(d) == << Line("cout", "Exporting Figure as JPG...", EmptyString) >>

\* Graph::attachSubscriber / Figure::attachSubscriber
DiagramAttachSubscriber(d, sub) == [d EXCEPT !.subscribers = Append(@, sub)]

\* virtual dispatch on a Diagram
DiagramCalc(d) == IF d.kind = "Graph" THEN GraphCalc(d) ELSE FigureCalc(d)
DiagramDraw(d) == IF d.kind = "Graph" THEN GraphDraw(d) ELSE FigureObjectDraw(d)
DiagramDrag(d) == IF d.kind = "Graph" THEN GraphDrag(d) ELSE FigureDrag(d)
DiagramAccept(d) == IF d.kind = "Graph" THEN GraphAccept(d) ELSE FigureAccept(d)

\* what the calls on a Diagram leave alone: the facade and the singletons
facadeVars == << undoStack, redoStack, barCoord, lineCoord, pool, heap,
                 nextCmd, steps, directors >>

\* a Graph or a Figure has been constructed; nothing else has happened
InitDiagram ==
    /\ undoStack = << >>
    /\ redoStack = << >>
    /\ barCoord = EmptyString
    /\ lineCoord = EmptyString
    /\ pool = [k \in {} |-> 0]
    /\ heap = << >>
    /\ nextCmd = 1
    /\ steps = << >>
    /\ out = << >>
    /\ op = Call("main", EmptyString, EmptyString, EmptyString)
    /\ diagram \in {GraphObject, FigureObject}
    /\ directors = << >>

\* d.attachSubscriber(sub)
CallAttach(sub) ==
    /\ Len(diagram.subscribers) < MaxSubscribers
    /\ op' = Call("attachSubscriber", EmptyString, EmptyString, EmptyString)
    /\ diagram' = DiagramAttachSubscriber(diagram, sub)
    /\ out' = << >>
    /\ UNCHANGED facadeVars

\* d.calc()
CallCalc ==
    /\ op' = Call("calc", EmptyString, EmptyString, EmptyString)
    /\ out' = DiagramCalc(diagram)
    /\ UNCHANGED << diagram, facadeVars >>

\* d.draw()
CallDraw ==
    /\ op' = Call("draw", EmptyString, EmptyString, EmptyString)
    /\ out' = DiagramDraw(diagram)
    /\ UNCHANGED << diagram, facadeVars >>

\* d.drag()
CallDrag ==
    /\ op' = Call("drag", EmptyString, EmptyString, EmptyString)
    /\ out' = DiagramDrag(diagram)
    /\ UNCHANGED << diagram, facadeVars >>

\* d.accept(&exporter)
CallAccept ==
    /\ op' = Call("accept", EmptyString, EmptyString, EmptyString)
    /\ out' = DiagramAccept(diagram)
    /\ UNCHANGED << diagram, facadeVars >>

NextDiagram ==
    \/ \E sub \in {regSub, contrastSub} : CallAttach(sub)
    \/ CallCalc
    \/ CallDraw
    \/ CallDrag
    \/ CallAccept

SpecDiagram == InitDiagram /\ [][NextDiagram]_vars

\* the prefix a subscriber writes and the message of a call on a Diagram
PrefixOf(sub) ==
    IF sub = regSub THEN "[Regular Subscriber] " ELSE "[Contrast Image Subscriber] "
MessageOf(kind, call) ==
    IF kind = "Graph"
    THEN (IF call = "calc" THEN "Graph calculated"
          ELSE IF call = "draw" THEN "Graph drawn" ELSE "Graph dragged")
    ELSE (IF call = "calc" THEN "Figure calculated"
          ELSE IF call = "draw" THEN "Figure drawn" ELSE "Figure dragged")

\* C12: Observer ordering. On a Graph or Figure every calc(), draw() and
\* drag() notifies the subscribers in attachment order (S1 before S2 when
\* S1 was attached first), every time, and the lines of the call are its
\* own line followed by exactly these notifications, all carrying the
\* message of this call: none is missing at the return, none belongs to
\* another call.
C12_ObserverOrdering ==
    [][ op'.name \in {"calc", "draw", "drag"} =>
           /\ diagram' = diagram
           /\ Len(out') = 1 + Len(diagram.subscribers)
           /\ out'[1].who = "cout"
           /\ \A i \in 1..Len(diagram.subscribers) :
                  /\ out'[i + 1].who = PrefixOf(diagram.subscribers[i])
                  /\ out'[i + 1].txt = MessageOf(diagram.kind, op'.name) ]_vars

\* regSub then contrastSub attached to a Graph, drag() called: the regular
\* subscriber's line comes before the contrast subscriber's
C12_Witness ==
    /\ diagram.kind = "Graph"
    /\ diagram.subscribers = << regSub, contrastSub >>
    /\ op.name = "drag"
    /\ Len(out) = 3
    /\ out[2] = [who |-> "[Regular Subscriber] ", txt |-> "Graph dragged", arg |-> EmptyString]
    /\ out[3] = [who |-> "[Contrast Image Subscriber] ", txt |-> "Graph dragged", arg |-> EmptyString]

(* ---------------------------------------------------------------------- *)
(* Properties of figure creation                                          *)
(* ---------------------------------------------------------------------- *)
\* the lines of o written by subscriber sub
LinesOf(o, sub) == { i \in 1..Len(o) : o[i].who = PrefixOf(sub) }

\* the subscribers of the flyweight of the last createDiagram("Figure",
\* key, ..) at the time of its draw(): all but the one attached after it
AtDraw == Below(heap[pool[op.type]].subscribers)

\* C13: One message per state change. The draw() triggered by any
\* createDiagram("Figure", key, coord) delivers its message exactly once
\* to each subscriber of the flyweight, whatever creations came before,
\* those with the same key included.
C13_OneMessagePerSubscriber ==
    IsCreateFigure(op) =>
        \A sub \in {regSub, contrastSub} :
            Cardinality(LinesOf(out, sub)) =
                (IF \E i \in 1..Len(AtDraw) : AtDraw[i] = sub THEN 1 ELSE 0)

\* the lines of o that are a flyweight's own draw line
DrawLines(o) ==
    { i \in 1..Len(o) :
        o[i].txt \in { "[Colored Flyweight] Drawing colored figure of type: ",
                       "[B/W Flyweight] Drawing black and white figure of type: " } }

\* C14: Figure creation order. createDiagram("Figure", key, coord) fetches
\* or creates the flyweight of key, attaches the regular subscriber, writes
\* the coordinate, draws the flyweight exactly once and only then attaches
\* the contrast subscriber: the draw notifies the subscribers attached
\* before the call and then the regular subscriber just attached, not the
\* contrast subscriber attached after it. On the first creation for a key
\* the draw notifies the regular subscriber alone.
C14_FigureCreationOrder ==
    [][ IsCreateFigure(op') =>
          LET k == op'.type
              before == IF k \in DOMAIN pool THEN heap[pool[k]].subscribers ELSE << >>
          IN /\ k \in DOMAIN pool'
             /\ heap'[pool'[k]].subscribers = before \o << regSub, contrastSub >>
             /\ Len(out') = 2 + Len(before) + 1
             /\ out'[1] = [who |-> "cout", txt |-> "Coordinates: ", arg |-> op'.coord]
             /\ DrawLines(out') = {2}
             /\ out'[2].arg = k
             /\ \A i \in 1..Len(before) : out'[2 + i].who = PrefixOf(before[i])
             /\ out'[Len(out')].who = PrefixOf(regSub)
             /\ k \notin DOMAIN pool =>
                   /\ LinesOf(out', contrastSub) = {}
                   /\ LinesOf(out', regSub) = {3} ]_vars

\* the first createDiagram("Figure", "CircleColor", ..): one draw, the
\* regular subscriber notified, the contrast subscriber attached but not
\* notified
C14_Witness ==
    /\ IsCreateFigure(op) /\ op.type = CircleColor
    /\ Len(heap) = 1
    /\ heap[1].subscribers = << regSub, contrastSub >>
    /\ Len(out) = 3
    /\ out[3].who = "[Regular Subscriber] "

(* ---------------------------------------------------------------------- *)
(* Frame properties of undo() and of figure creation                      *)
(* ---------------------------------------------------------------------- *)
\* C15: undo() does not reverse creation. An undo() call leaves both
\* builders' coordinates, the flyweight cache and all subscriber lists as
\* they were, runs no builder step and sends no notification; all it does
\* is write the acknowledgment and move one command from the undo stack to
\* the redo stack.
C15_UndoKeepsCreation ==
    [][ op'.name = "undo" =>
           /\ UNCHANGED << barCoord, lineCoord, pool, heap, nextCmd >>
           /\ steps' = << >>
           /\ Len(out') <= 1
           /\ \A i \in 1..Len(out') :
                  out'[i].who = "cout" /\ out'[i].txt = "Undo creation of graph: "
           /\ undoStack # << >> =>
                  /\ Len(out') = 1
                  /\ undoStack' \o << Top(redoStack') >> = undoStack
                  /\ Below(redoStack') = redoStack ]_vars

\* a Bar built at (15,30) and a figure created, then undo(): the Bar
\* builder still holds (15,30) and the figure is still cached
C15_Witness ==
    /\ op.name = "undo"
    /\ redoStack = << [id |-> 1, type |-> BarStyle, coord |-> Coord1530] >>
    /\ undoStack = << >>
    /\ barCoord = Coord1530
    /\ Len(heap) = 1 /\ Len(heap[1].subscribers) = 2
    /\ Len(out) = 1

(* ---------------------------------------------------------------------- *)
(* Properties of the shared builders                                      *)
(* ---------------------------------------------------------------------- *)
\* the lines of o that stream a builder's coordinate (calc and drag)
CoordLines(o) ==
    { i \in 1..Len(o) :
        o[i].txt \in { "Bar calc at ", "Drag Bar at ", "Line calc at ", "Drag Line at " } }

\* in the step trace s, a setCoord comes before every calc and every drag
SetCoordFirst(s) ==
    \A j \in 1..Len(s) :
        s[j].method \in {"calc", "drag"} =>
            \E i \in 1..(j - 1) : s[i].method = "setCoord" /\ s[i].builder = s[j].builder

\* C16: Shared builder state is overwritten before use. In the sequential
\* program every construction for style S with coordinate c, from
\* createDiagram or from redo(), sets the S builder's coordinate to c
\* before calc() and drag() run: both stream c, never the coordinate of an
\* earlier request; afterwards the S builder holds c and the other style's
\* builder holds what it held.
C16_OverwrittenBeforeUse ==
    [][ LET c == CreationOf(op', redoStack)
        IN c.type \in {BarStyle, LineStyle} =>
             /\ SetCoordFirst(steps')
             /\ CoordLines(out') = {1, 3}
             /\ \A i \in CoordLines(out') : out'[i].arg = c.coord
             /\ c.type = BarStyle => (barCoord' = c.coord /\ lineCoord' = lineCoord)
             /\ c.type = LineStyle => (lineCoord' = c.coord /\ barCoord' = barCoord) ]_vars

\* a Bar at (10,20), a Line at (10,20), then a Bar at (15,30): the Bar
\* builder, which held (10,20), streamed (15,30) in calc and drag; the
\* Line builder still holds (10,20)
C16_Witness ==
    /\ IsCreateGraph(op) /\ op.type = BarStyle /\ op.coord = Coord1530
    /\ Len(undoStack) = 3
    /\ undoStack[1] = [id |-> 1, type |-> BarStyle, coord |-> Coord1020]
    /\ undoStack[2].type = LineStyle /\ undoStack[2].coord = Coord1020
    /\ barCoord = Coord1530
    /\ lineCoord = Coord1020
    /\ out[1].arg = Coord1530 /\ out[3].arg = Coord1530

(* ---------------------------------------------------------------------- *)
(* Two callers inside Director::construct, interleaved method by method   *)
(* ---------------------------------------------------------------------- *)
\* the two callers
Callers == {1, 2}

\* a selection that hands the Bar singleton to every request
BuilderFor_AlwaysBar(type) == "Bar"

\* GraphFactory::createGraph's choice of singleton for a style
BuilderFor(type) ==
    IF type = BarStyle THEN "Bar"
    ELSE IF type = LineStyle THEN "Line"
    ELSE "none"

\* the coord member of a builder singleton
CoordOf(builder) == IF builder = "Bar" THEN barCoord ELSE lineCoord

\* a caller about to enter construct(type, coord) on its style's singleton:
\* the next method it will call and the lines its calls have written
Director(type, coord) ==
    [type |-> type, coord |-> coord, builder |-> BuilderFor(type),
     pc |-> "setCoord", lines |-> << >>]

\* both callers have had their builder set for a Bar or Line request
InitInterleaved ==
    /\ undoStack = << >>
    /\ redoStack = << >>
    /\ barCoord = EmptyString
    /\ lineCoord = EmptyString
    /\ pool = [k \in {} |-> 0]
    /\ heap = << >>
    /\ nextCmd = 1
    /\ steps = << >>
    /\ out = << >>
    /\ op = Call("main", EmptyString, EmptyString, EmptyString)
    /\ diagram = NoDiagram
    /\ \E t1, t2 \in {BarStyle, LineStyle} : \E c1, c2 \in Coords :
          directors = [p \in Callers |->
                          IF p = 1 THEN Director(t1, c1) ELSE Director(t2, c2)]

\* caller p's next method has run and left the builder as m
Stepped(p, method, next, m) ==
    /\ op' = Call(method, EmptyString, directors[p].type, directors[p].coord)
    /\ barCoord' = (IF directors[p].builder = "Bar" THEN m.coord ELSE barCoord)
    /\ lineCoord' = (IF directors[p].builder = "Line" THEN m.coord ELSE lineCoord)
    /\ out' = m.out
    /\ steps' = m.steps
    /\ directors' = [directors EXCEPT ![p].pc = next, ![p].lines = @ \o m.out]
    /\ UNCHANGED << undoStack, redoStack, pool, heap, nextCmd, diagram >>

\* builder->setCoord(coord) of caller p
DirectorSetCoord(p) ==
    /\ directors[p].pc = "setCoord"
    /\ Stepped(p, "setCoord", "calc",
               BuilderSetCoord(directors[p].builder,
                               Running(CoordOf(directors[p].builder)),
                               directors[p].coord))

\* builder->calc() of caller p
DirectorCalc(p) ==
    /\ directors[p].pc = "calc"
    /\ Stepped(p, "calc", "draw",
               BuilderCalc(directors[p].builder, Running(CoordOf(directors[p].builder))))

\* builder->draw() of caller p
DirectorDraw(p) ==
    /\ directors[p].pc = "draw"
    /\ Stepped(p, "draw", "drag",
               BuilderDraw(directors[p].builder, Running(CoordOf(directors[p].builder))))

\* builder->drag() of caller p
DirectorDrag(p) ==
    /\ directors[p].pc = "drag"
    /\ Stepped(p, "drag", "done",
               BuilderDrag(directors[p].builder, Running(CoordOf(directors[p].builder))))

NextInterleaved ==
    \E p \in Callers :
        \/ DirectorSetCoord(p)
        \/ DirectorCalc(p)
        \/ DirectorDraw(p)
        \/ DirectorDrag(p)

SpecInterleaved == InitInterleaved /\ [][NextInterleaved]_vars

\* C17: Interleaved same-style construction is unsafe. When the four
\* Director steps of two requests are interleaved step by step, a request
\* for another style than the other request's never streams a coordinate
\* that is not its own in calc() or drag(); two requests for the same style
\* with different coordinates can (the witness below is such a state).
C17_DifferentStylesSafe ==
    \A p \in Callers : \A q \in Callers :
        directors[p].type # directors[q].type =>
            /\ \A i \in CoordLines(directors[p].lines) :
                   directors[p].lines[i].arg = directors[p].coord
            /\ directors[p].pc = "done" => CoordLines(directors[p].lines) = {1, 3}

\* two Bar requests, caller 1 for (10,20) and caller 2 for (15,30): caller
\* 1 has finished and its calc() or drag() streamed (15,30)
C17_Witness ==
    /\ directors[1].type = BarStyle /\ directors[2].type = BarStyle
    /\ directors[1].coord = Coord1020 /\ directors[2].coord = Coord1530
    /\ directors[1].pc = "done"
    /\ \E i \in CoordLines(directors[1].lines) :
           directors[1].lines[i].arg = Coord1530

\* C18: Figure creation is outside the command history.
\* createDiagram("Figure", key, coord) leaves the undo stack and the redo
\* stack as they were (no command pushed, no redo history cleared), makes
\* no command, runs no builder step and leaves both builders' coordinates
\* as they were; hence a redo() or undo() after it finds the same top
\* command as before it.
C18_FigureOutsideHistory ==
    [][ IsCreateFigure(op') =>
           /\ UNCHANGED << undoStack, redoStack, barCoord, lineCoord, nextCmd >>
           /\ steps' = << >>
           /\ PopCommand(redoStack').cmd = PopCommand(redoStack).cmd
           /\ PopCommand(undoStack').cmd = PopCommand(undoStack).cmd ]_vars

\* createGraph A (a Bar), undo(), then the one createDiagram("Figure", ..):
\* A is still on the redo stack for a redo() to re-execute
C18_Witness ==
    /\ IsCreateFigure(op)
    /\ undoStack = << >>
    /\ Len(redoStack) = 1 /\ redoStack[1].id = 1 /\ redoStack[1].type = BarStyle
    /\ Len(heap) = 1 /\ Len(heap[1].subscribers) = 2
    /\ nextCmd = 2

\* the ids of the commands of a stack, from its top to its bottom
RECURSIVE TopDown(_)
TopDown(stack) ==
    IF stack = << >> THEN << >>
    ELSE << Top(stack).id >> \o TopDown(Below(stack))

\* the ids of the undo stack bottom to top, then of the redo stack top to
\* bottom
History == [i \in 1..Len(undoStack) |-> undoStack[i].id] \o TopDown(redoStack)

\* C19: Linear history invariant. In every reachable state each command
\* occurs at most once across the undo and redo stacks together, and the
\* undo stack read bottom to top followed by the redo stack read top to
\* bottom lists the commands in strictly increasing order of creation.
C19_LinearHistory ==
    /\ \A i, j \in 1..Len(History) : i < j => History[i] < History[j]
    /\ \A i \in 1..Len(History) : History[i] \in 1..(nextCmd - 1)
    /\ Cardinality({ History[i] : i \in 1..Len(History) }) = Len(undoStack) + Len(redoStack)

\* three commands made, the last two undone: the undo stack holds the
\* first, the redo stack the third under the second
C19_Witness ==
    /\ Len(undoStack) = 1 /\ Len(redoStack) = 2
    /\ undoStack[1].id = 1
    /\ redoStack[1].id = 3 /\ redoStack[2].id = 2

====
